---------------------------- MODULE Spec2Model ----------------------------
(***************************************************************************)
(* Model of backend/llm_quiz_generator.py: the fallback quiz generator     *)
(* (_fallback_generate_from_text), the JSON validation of LLM output       *)
(* (_parse_and_validate_json) and the attempt order of generate_quiz, as   *)
(* driven by the /generate_quiz endpoint of backend/main.py.               *)
(*                                                                         *)
(* A Python str is a sequence of one-character strings, so that slicing,   *)
(* stripping, splitting, capitalize(), istitle() and isnumeric() are       *)
(* computed character by character as the interpreter computes them.       *)
(***************************************************************************)
EXTENDS Integers, Sequences, FiniteSets, TLC

(***************************************************************************)
(* Characters                                                              *)
(***************************************************************************)
Lower ==
  <<"a","b","c","d","e","f","g","h","i","j","k","l","m",
    "n","o","p","q","r","s","t","u","v","w","x","y","z">>

Upper ==
  <<"A","B","C","D","E","F","G","H","I","J","K","L","M",
    "N","O","P","Q","R","S","T","U","V","W","X","Y","Z">>

Digit == <<"0","1","2","3","4","5","6","7","8","9">>

Range(f) == {f[k] : k \in DOMAIN f}

LowerSet == Range(Lower)
UpperSet == Range(Upper)
DigitSet == Range(Digit)

\* str.strip() / str.split() with no argument act on whitespace
Whitespace == {" ", "\n", "\t"}

\* the argument of w.strip(',.()"')
PunctChars == {",", ".", "(", ")", "\""}

ToUpper(c) == IF c \in LowerSet THEN Upper[CHOOSE k \in 1..26 : Lower[k] = c] ELSE c
ToLower(c) == IF c \in UpperSet THEN Lower[CHOOSE k \in 1..26 : Upper[k] = c] ELSE c

Min(a, b) == IF a < b THEN a ELSE b
Max(a, b) == IF a > b THEN a ELSE b

(***************************************************************************)
(* str methods                                                             *)
(***************************************************************************)
\* s[:n]
Prefix(s, n) == SubSeq(s, 1, Min(n, Len(s)))

RECURSIVE FirstKept(_, _, _)
FirstKept(s, chars, k) ==
  IF k > Len(s) \/ s[k] \notin chars THEN k ELSE FirstKept(s, chars, k + 1)

RECURSIVE LastKept(_, _, _)
LastKept(s, chars, k) ==
  IF k < 1 \/ s[k] \notin chars THEN k ELSE LastKept(s, chars, k - 1)

\* s.rstrip(chars), s.lstrip(chars), s.strip(chars)
StrRStrip(s, chars) == SubSeq(s, 1, LastKept(s, chars, Len(s)))
StrLStrip(s, chars) == SubSeq(s, FirstKept(s, chars, 1), Len(s))
StrStrip(s, chars) == StrLStrip(StrRStrip(s, chars), chars)

\* s.split(sep) for a one-character sep: the pieces between consecutive
\* separators, empty pieces kept
StrSplit(s, seps) ==
  LET at == {k \in 1..Len(s) : s[k] \in seps}
      starts == at \cup {0}
      ends == at \cup {Len(s) + 1}
      StartOf(n) == CHOOSE a \in starts : Cardinality({b \in starts : b < a}) = n - 1
      EndOf(a) == CHOOSE e \in ends : e > a /\ \A f \in ends : f > a => e <= f
  IN [n \in 1..Cardinality(starts) |-> SubSeq(s, StartOf(n) + 1, EndOf(StartOf(n)) - 1)]

NonEmpty(p) == p # <<>>

\* s.split(): runs of whitespace separate, no empty pieces
WsSplit(s) == SelectSeq(StrSplit(s, Whitespace), NonEmpty)

\* s.capitalize(): first character upper-cased, the rest lower-cased
Capitalize(s) ==
  [k \in 1..Len(s) |-> IF k = 1 THEN ToUpper(s[k]) ELSE ToLower(s[k])]

\* s.isnumeric(): at least one character and all of them numeric
IsNumeric(s) == s # <<>> /\ \A k \in 1..Len(s) : s[k] \in DigitSet

\* s.istitle(): uppercase characters follow only uncased ones, lowercase
\* characters only cased ones, and there is at least one cased character
RECURSIVE IsTitleRec(_, _, _, _)
IsTitleRec(s, k, prevCased, cased) ==
  IF k > Len(s) THEN cased
  ELSE IF s[k] \in UpperSet
       THEN IF prevCased THEN FALSE ELSE IsTitleRec(s, k + 1, TRUE, TRUE)
  ELSE IF s[k] \in LowerSet
       THEN IF ~prevCased THEN FALSE ELSE IsTitleRec(s, k + 1, TRUE, TRUE)
  ELSE IsTitleRec(s, k + 1, FALSE, cased)

IsTitle(s) == IsTitleRec(s, 1, FALSE, FALSE)

\* str(n) for n >= 0
RECURSIVE Decimal(_)
Decimal(n) ==
  IF n < 10 THEN <<Digit[n + 1]>> ELSE Append(Decimal(n \div 10), Digit[(n % 10) + 1])

\* x in list
Contains(seq, x) == \E k \in 1..Len(seq) : seq[k] = x

\* sep.join(parts)
RECURSIVE Join(_, _)
Join(parts, sep) ==
  IF parts = <<>> THEN <<>>
  ELSE IF Len(parts) = 1 THEN parts[1]
  ELSE parts[1] \o sep \o Join(Tail(parts), sep)

\* s * n
RECURSIVE Repeat(_, _)
Repeat(s, n) == IF n <= 0 THEN <<>> ELSE s \o Repeat(s, n - 1)


(***************************************************************************)
(* The module-level generator of `random`                                  *)
(*                                                                         *)
(* random.choice, random.randint and random.shuffle are methods of one     *)
(* hidden Random instance created when the module is imported: every call  *)
(* reads its state and advances it.  The state is modelled as a number in  *)
(* 0..RngModulus-1 advanced by a full-period linear congruential step; the *)
(* seed is arbitrary.                                                      *)
(***************************************************************************)
RngModulus == 128

MaxSeed == 15

RngNext(r) == (5 * r + 3) % RngModulus

\* the generator states a process may start from: MaxSeed + 1 of them, spread
\* over the state space
Seeds == {(29 * k) % RngModulus : k \in 0..MaxSeed}

\* Random._randbelow(n): a value in 0..n-1 read from the generator state
RandBelow(r, n) == ((r % RngModulus) * n) \div RngModulus

(***************************************************************************)
(* _fallback_generate_from_text: constants                                 *)
(***************************************************************************)
MinQuestions == 5
MaxQuestions == 7
SentencesPerQuestion == 3
PoolSentences == 20
PoolCap == 50
MinPoolWordLen == 3
QuestionChars == 200
MinQuestionChars == 10
MinAnswerLen == 3
NumOptions == 4
RandIntLow == 1
RandIntHigh == 99
ExplanationChars == 120
RelatedSections == 5
RelatedWords == 6
MaxRelated == 6

(***************************************************************************)
(* _fallback_generate_from_text: sentences, question count, word pool      *)
(***************************************************************************)
\* sentences = [s.strip() for s in clean_text.split('.') if s.strip()],
\* or [summary] if summary else [title] when that list is empty
Sentences(text, summ, ttl) ==
  LET pieces == StrSplit(text, {"."})
      stripped == [k \in 1..Len(pieces) |-> StrStrip(pieces[k], Whitespace)]
      kept == SelectSeq(stripped, NonEmpty)
  IN IF kept # <<>> THEN kept
     ELSE IF summ # <<>> THEN <<summ>> ELSE <<ttl>>

\* a question count without the clamp to 5..7
NumQUnclamped(sents) == Len(sents) \div SentencesPerQuestion

\* num_q = min(7, max(5, len(sentences) // 3))
NumQ(sents) ==
  Min(MaxQuestions, Max(MinQuestions, Len(sents) \div SentencesPerQuestion))

\* w.strip(',.()"').capitalize()
PoolWord(w) == Capitalize(StrStrip(w, PunctChars))

\* len(w) > 3 and not w.isnumeric()
KeepWord(w) == Len(w) > MinPoolWordLen /\ ~IsNumeric(w)

\* [[w.strip(',.()"').capitalize() for w in s.split()] for s in sentences[:20]]
PoolWords(sents) ==
  [s \in 1..Min(Len(sents), PoolSentences) |->
     LET toks == WsSplit(sents[s])
     IN [t \in 1..Len(toks) |-> PoolWord(toks[t])]]

\* the kept words of pw, each once, listed by first occurrence
FirstOccurrences(pw) ==
  LET at == UNION {{<<s, t>> : t \in 1..Len(pw[s])} : s \in 1..Len(pw)}
      Before(p, q) == p[1] < q[1] \/ (p[1] = q[1] /\ p[2] < q[2])
      first == {p \in at : /\ KeepWord(pw[p[1]][p[2]])
                           /\ \A q \in at : Before(q, p) => pw[q[1]][q[2]] # pw[p[1]][p[2]]}
  IN [m \in 1..Cardinality(first) |->
        LET p == CHOOSE p \in first : Cardinality({q \in first : Before(q, p)}) = m - 1
        IN pw[p[1]][p[2]]]

\* the set `words` built from sentences[:20]:
\*   for s in sentences[:20]: for w in s.split(): ... words.add(w)
\* listed by first occurrence
WordSet(sents) ==
  CHOOSE ws \in {FirstOccurrences(pw) : pw \in {PoolWords(sents)}} : TRUE

Reverse(seq) == [k \in 1..Len(seq) |-> seq[Len(seq) + 1 - k]]

Rotate(seq, n) ==
  IF seq = <<>> THEN <<>>
  ELSE [k \in 1..Len(seq) |-> seq[((k - 1 + n) % Len(seq)) + 1]]

\* list(words): the iteration order of a set of str depends on the process's
\* string-hash seed; h selects one of the orders
ListOfSet(seq, h) ==
  IF h % 2 = 0 THEN Rotate(seq, h \div 2) ELSE Rotate(Reverse(seq), h \div 2)

\* words = list(words)[:50]
WordPool(sents, h) == Prefix(ListOfSet(WordSet(sents), h), PoolCap)

(***************************************************************************)
(* _fallback_generate_from_text: one question                              *)
(***************************************************************************)
\* a source sentence that wraps around instead of going back to the first
SourceSentenceCyclic(sents, q) == sents[(q % Len(sents)) + 1]

\* idx = i if i < len(sentences) else 0   (q is the 0-based i)
SourceSentence(sents, q) == IF q < Len(sents) THEN sents[q + 1] ELSE sents[1]

\* q_text = sentences[idx][:200].rstrip();
\* if len(q_text) < 10: q_text = (summary or title)[:200];  then q_text + "?"
QuestionText(sentence, summ, ttl) ==
  LET t == StrRStrip(Prefix(sentence, QuestionChars), Whitespace)
  IN (IF Len(t) < MinQuestionChars
      THEN Prefix(IF summ # <<>> THEN summ ELSE ttl, QuestionChars)
      ELSE t) \o <<"?">>

\* tokens = [t.strip(',.()"') for t in sentences[idx].split()]
AnswerTokens(sentence) ==
  LET parts == WsSplit(sentence)
  IN [k \in 1..Len(parts) |-> StrStrip(parts[k], PunctChars)]

\* t.istitle() and len(t) > 3
IsCandidate(t) == IsTitle(t) /\ Len(t) > MinAnswerLen

Candidates(sentence) == SelectSeq(AnswerTokens(sentence), IsCandidate)

\* an answer that falls back to the first stripped token
CorrectAnswerStripped(sentence, ttl, r) ==
  LET c == Candidates(sentence)
      toks == AnswerTokens(sentence)
  IN IF c # <<>> THEN c[1 + RandBelow(r, Len(c))]
     ELSE IF toks # <<>> THEN toks[1] ELSE ttl

\* correct = random.choice(candidates) if candidates
\*           else (parts[0] if parts else title)
CorrectAnswer(sentence, ttl, r) ==
  LET c == Candidates(sentence)
      parts == WsSplit(sentence)
  IN IF c # <<>> THEN c[1 + RandBelow(r, Len(c))]
     ELSE IF parts # <<>> THEN parts[1] ELSE ttl

OptionPrefix == <<"O","p","t","i","o","n">>

\* pick = random.choice(words) if words else f"Option{random.randint(1,99)}"
Pick(pool, r) ==
  IF pool # <<>> THEN pool[1 + RandBelow(r, Len(pool))]
  ELSE OptionPrefix \o Decimal(RandIntLow + RandBelow(r, RandIntHigh - RandIntLow + 1))

\* if pick not in options: options.append(pick)
AddOption(opts, pick) == IF ~Contains(opts, pick) THEN Append(opts, pick) ELSE opts

\* an exchange that overwrites one element instead of swapping two
SwapLossy(x, a, b) == [x EXCEPT ![a] = x[b]]

Swap(x, a, b) == [x EXCEPT ![a] = x[b], ![b] = x[a]]

\* random.shuffle(x): for i in reversed(range(1, len(x))):
\*                        j = randbelow(i + 1); x[i], x[j] = x[j], x[i]
RECURSIVE ShuffleFrom(_, _, _)
ShuffleFrom(x, k, r) ==
  IF k < 1 THEN [list |-> x, rng |-> r]
  ELSE ShuffleFrom(Swap(x, k + 1, 1 + RandBelow(r, k + 1)), k - 1, RngNext(r))

Shuffle(x, r) == ShuffleFrom(x, Len(x) - 1, r)

\* ["easy"] * 3 + ["medium"] * 2 + ["hard"]
DifficultyChoices == <<"easy", "easy", "easy", "medium", "medium", "hard">>

Difficulty(r) == DifficultyChoices[1 + RandBelow(r, Len(DifficultyChoices))]

ExplanationPrefix ==
  <<"B","a","s","e","d"," ","o","n"," ","t","h","e"," ","a","r","t","i","c","l","e",
    " ","t","e","x","t",":"," ","'">>

\* f"Based on the article text: '{sentences[idx][:120].strip()}'."
Explanation(sentence) ==
  ExplanationPrefix \o StrStrip(Prefix(sentence, ExplanationChars), Whitespace)
    \o <<"'", ".">>

\* the dict q appended to quiz
Question(sentence, summ, ttl, opts, answer, diff) ==
  [question    |-> QuestionText(sentence, summ, ttl),
   options     |-> opts,
   answer      |-> answer,
   explanation |-> Explanation(sentence),
   difficulty  |-> diff]

(***************************************************************************)
(* _fallback_generate_from_text: related topics                            *)
(***************************************************************************)
\* if s and s not in related
KeepSection(rel, s) == s # <<>> /\ ~Contains(rel, s)

RECURSIVE AddSections(_, _)
AddSections(rel, secs) ==
  IF secs = <<>> THEN rel
  ELSE AddSections(IF KeepSection(rel, Head(secs)) THEN Append(rel, Head(secs)) ELSE rel,
                   Tail(secs))

\* a pool word kept without the limit of 6 topics
KeepTopicWordUncapped(rel, w) == ~Contains(rel, w)

\* if w not in related and len(related) < 6
KeepTopicWord(rel, w) == ~Contains(rel, w) /\ Len(rel) < MaxRelated

RECURSIVE AddTopicWords(_, _)
AddTopicWords(rel, ws) ==
  IF ws = <<>> THEN rel
  ELSE AddTopicWords(IF KeepTopicWord(rel, Head(ws)) THEN Append(rel, Head(ws)) ELSE rel,
                     Tail(ws))

SectionTopics(secs) == AddSections(<<>>, Prefix(secs, RelatedSections))

RelatedTopics(secs, pool) ==
  AddTopicWords(SectionTopics(secs), Prefix(pool, RelatedWords))


(***************************************************************************)
(* Inputs: the scraped articles (title, summary, clean_text, sections)     *)
(***************************************************************************)
MaxRepeat == 8
LongUnits == 50
MaxHashSeed == 2

wFoo == <<"F","o","o">>
wHello == <<"H","e","l","l","o">>
wRome == <<"R","o","m","e">>
wHuge == <<"H","u","g","e">>
wTiber == <<"T","i","b","e","r">>
wLatin == <<"L","a","t","i","n">>
wItaly == <<"I","t","a","l","y">>
wParis == <<"P","a","r","i","s">>
wHistory == <<"H","i","s","t","o","r","y">>
wGeography == <<"G","e","o","g","r","a","p","h","y">>
wEconomy == <<"E","c","o","n","o","m","y">>
wCulture == <<"C","u","l","t","u","r","e">>

\* "Paris is in France near Rivers"
ProperSentence == <<"P","a","r","i","s"," ","i","s"," ","i","n"," ","F","r","a","n","c","e"," ","n","e","a","r"," ","R","i","v","e","r","s">>

\* "(the) city is large, old"
LowercaseSentence == <<"(","t","h","e",")"," ","c","i","t","y"," ","i","s"," ","l","a","r","g","e",","," ","o","l","d">>

\* "It has 12 Museums (2024)"
NumberSentence == <<"I","t"," ","h","a","s"," ","1","2"," ","M","u","s","e","u","m","s"," ","(","2","0","2","4",")">>

\* three sentences, the second paragraph after a blank line
Paragraph ==
  ProperSentence \o <<".", " ">> \o LowercaseSentence \o <<".", "\n", "\n">>
    \o NumberSentence \o <<".", " ">>

\* "Rome. Huge. Tiber. Latin. Italy": five sentences shorter than 10 characters
ShortText == Join(<<wRome, wHuge, wTiber, wLatin, wItaly>>, <<".", " ">>)

\* "Rome Huge Tiber Latin"
CitySummary == Join(<<wRome, wHuge, wTiber, wLatin>>, <<" ">>)

\* "abc abc ... abc end": longer than 200 characters, a space at position 200
LongText == Repeat(<<"a", "b", "c", " ">>, LongUnits) \o <<"e", "n", "d">>

\* only separators and whitespace
BlankText == <<" ", ".", " ", ".", "\n">>

HistGeo == <<wHistory, wGeography>>
ManySections == <<wHistory, <<>>, wHistory, wGeography, wParis, wEconomy, wCulture>>
FiveSections == <<wHistory, wGeography, wEconomy, wCulture, wParis, wRome>>

Article(t, su, text, secs) ==
  [title |-> t, summary |-> su, clean_text |-> text, sections |-> secs]

SparseArticles ==
  { Article(<<>>, <<>>, <<>>, <<>>),
    Article(wFoo, <<>>, <<>>, <<>>),
    Article(wHello, <<>>, <<>>, <<>>),
    Article(wRome, CitySummary, BlankText, HistGeo),
    Article(wRome, <<>>, ShortText, FiveSections),
    Article(wRome, CitySummary, ShortText, <<>>),
    Article(wFoo, <<>>, LongText, HistGeo) }

ParagraphArticles ==
  { Article(wParis, ProperSentence, Repeat(Paragraph, n),
            IF n % 3 = 0 THEN ManySections ELSE IF n % 3 = 1 THEN HistGeo ELSE FiveSections)
      : n \in 1..MaxRepeat }

FallbackInputs == SparseArticles \cup ParagraphArticles

ServerInputs ==
  { Article(wFoo, <<>>, <<>>, <<>>),
    Article(wHello, <<>>, <<>>, <<>>),
    Article(wRome, CitySummary, ShortText, HistGeo),
    Article(wParis, ProperSentence, Paragraph, ManySections) }

(***************************************************************************)
(* LLM output and _parse_and_validate_json                                 *)
(*                                                                         *)
(* A text returned by a provider is a document: not JSON at all, brackets  *)
(* nested deeper than the interpreter's recursion limit, or a JSON object. *)
(* A JSON object lists the keys it has; every value in it is a string or a *)
(* list of strings where the schema expects one.                           *)
(***************************************************************************)
QuizKeys == {"title", "summary", "quiz", "related_topics"}
QuestionKeys == {"question", "options", "answer", "explanation", "difficulty"}

\* QuizModel: title and summary are Optional, quiz and related_topics are not
RequiredQuizKeys == {"quiz", "related_topics"}

\* QuestionModel: five fields, none with a default
RequiredQuestionKeys == QuestionKeys

JsonQuestion(keys, opts, answer, diff) ==
  [keys |-> keys, question |-> <<"q">>, options |-> opts, answer |-> answer,
   explanation |-> <<"e">>, difficulty |-> diff]

JsonQuiz(keys, qs) ==
  [keys |-> keys, title |-> wParis, summary |-> ProperSentence, quiz |-> qs,
   related_topics |-> HistGeo]

FourOptions == << <<"a">>, <<"b">>, <<"c">>, <<"d">> >>

GoodQuestion == JsonQuestion(QuestionKeys, FourOptions, <<"a">>, "easy")

\* a question of the right types with two equal options, an answer that is
\* not an option and an unknown difficulty
LooseQuestion ==
  JsonQuestion(QuestionKeys, << <<"a">>, <<"a">> >>, <<"z">>, "impossible")

NoAnswerQuestion ==
  JsonQuestion(QuestionKeys \ {"answer"}, FourOptions, <<"a">>, "easy")

GoodQuiz == JsonQuiz(QuizKeys, [k \in 1..MinQuestions |-> GoodQuestion])
LooseQuiz == JsonQuiz(QuizKeys, <<GoodQuestion, LooseQuestion>>)
NoAnswerQuiz == JsonQuiz(QuizKeys, <<GoodQuestion, NoAnswerQuestion>>)
NoQuizKey == JsonQuiz(QuizKeys \ {"quiz"}, <<>>)

Document(syntax, payload) == [syntax |-> syntax, payload |-> payload]

Documents ==
  { Document("notjson", NoQuizKey), Document("deep", NoQuizKey) }
    \cup { Document("json", p) : p \in {GoodQuiz, LooseQuiz, NoAnswerQuiz, NoQuizKey} }

\* what a provider's client does: raises, gives None, gives "", gives a text
Reply(kind, doc) == [kind |-> kind, doc |-> doc]

NoneText == Reply("none", Document("notjson", NoQuizKey))

Replies ==
  { Reply(k, Document("notjson", NoQuizKey)) : k \in {"raise", "none", "empty"} }
    \cup { Reply("text", d) : d \in Documents }

\* _call_gemini: None without a key and on any exception, else the text
CallGemini(key, reply) == IF ~key \/ reply.kind = "raise" THEN NoneText ELSE reply

\* _call_openai: None without a key and on any exception, else the content
CallOpenAI(key, reply) == IF ~key \/ reply.kind = "raise" THEN NoneText ELSE reply

\* `if text:` a str that is not empty
Truthy(text) == text.kind = "text"

\* json.loads(text): the exception it raises, "" when it returns
JsonLoadsError(doc) ==
  IF doc.syntax = "notjson" THEN "JSONDecodeError"
  ELSE IF doc.syntax = "deep" THEN "RecursionError"
  ELSE ""

\* QuestionModel: every field present (the types are those of the fields)
ValidQuestion(q) == RequiredQuestionKeys \subseteq q.keys

\* QuizModel.parse_obj(payload) succeeds
ValidQuiz(p) ==
  /\ RequiredQuizKeys \subseteq p.keys
  /\ \A k \in 1..Len(p.quiz) : ValidQuestion(p.quiz[k])

\* validated.dict()
QuestionDict(q) ==
  [question |-> q.question, options |-> q.options, answer |-> q.answer,
   explanation |-> q.explanation, difficulty |-> q.difficulty]

QuizDict(p) ==
  [title |-> p.title, summary |-> p.summary,
   quiz |-> [k \in 1..Len(p.quiz) |-> QuestionDict(p.quiz[k])],
   related_topics |-> p.related_topics]

NoResult == [title |-> <<>>, summary |-> <<>>, quiz |-> <<>>, related_topics |-> <<>>]

\* except (json.JSONDecodeError, ValidationError): return None
CaughtExceptions == {"JSONDecodeError", "ValidationError"}

\* _parse_and_validate_json(text): "ok" with the dict, "none", or "raised"
ParseAndValidateJson(doc) ==
  LET exc == IF JsonLoadsError(doc) # "" THEN JsonLoadsError(doc)
             ELSE IF ~ValidQuiz(doc.payload) THEN "ValidationError"
             ELSE ""
  IN IF exc = "" THEN [status |-> "ok", value |-> QuizDict(doc.payload)]
     ELSE IF exc \in CaughtExceptions THEN [status |-> "none", value |-> NoResult]
     ELSE [status |-> "raised", value |-> NoResult]

\* a provider called whether or not its key is configured
ShouldCallAlways(key) == TRUE

\* `if gemini_key:` / `if openai_key:`
ShouldCall(key) == key

(***************************************************************************)
(* State                                                                   *)
(***************************************************************************)
MaxRequests == 2

VARIABLES
  title, summary, clean_text, sections,  \* arguments of generate_quiz
  gemini_key, openai_key,                \* GEMINI_API_KEY / OPENAI_API_KEY set
  hashSeed,                              \* the process's string-hash seed
  rng,                                   \* state of random's hidden generator
  rngUsers,                              \* requests that have drawn from rng
  reqId,                                 \* number of the request being served
  pc,                                    \* position in generate_quiz
  attempts,                              \* attempts made for this request
  sentences, num_q, words,               \* locals of the fallback generator
  i, correct, options, quiz,
  result                                 \* value returned by generate_quiz

inputVars == <<title, summary, clean_text, sections>>
envVars == <<gemini_key, openai_key, hashSeed>>
fallbackVars == <<sentences, num_q, words, i, correct, options, quiz>>
vars == <<inputVars, envVars, rng, rngUsers, reqId, pc, attempts, fallbackVars, result>>

NoLocals ==
  /\ sentences = <<>>
  /\ num_q = 0
  /\ words = <<>>
  /\ i = 0
  /\ correct = <<>>
  /\ options = <<>>
  /\ quiz = <<>>

\* the process before any request: keys and seeds are arbitrary
Init ==
  /\ title = <<>> /\ summary = <<>> /\ clean_text = <<>> /\ sections = <<>>
  /\ gemini_key \in BOOLEAN
  /\ openai_key \in BOOLEAN
  /\ hashSeed \in 0..MaxHashSeed
  /\ rng \in Seeds
  /\ rngUsers = {}
  /\ reqId = 0
  /\ pc = "idle"
  /\ attempts = <<>>
  /\ NoLocals
  /\ result = NoResult

\* a direct call _fallback_generate_from_text(title, summary, clean_text, sections)
InitFallback ==
  /\ \E a \in FallbackInputs :
       /\ title = a.title
       /\ summary = a.summary
       /\ clean_text = a.clean_text
       /\ sections = a.sections
  /\ gemini_key = FALSE
  /\ openai_key = FALSE
  /\ hashSeed \in 0..MaxHashSeed
  /\ rng \in Seeds
  /\ rngUsers = {}
  /\ reqId = 1
  /\ pc = "fallback"
  /\ attempts = <<>>
  /\ NoLocals
  /\ result = NoResult

(***************************************************************************)
(* generate_quiz_endpoint and generate_quiz                                *)
(***************************************************************************)
\* POST /generate_quiz: the handler is a coroutine that never awaits, so a
\* request runs to its end before the next one starts
GenerateQuizEndpoint ==
  /\ pc \in {"idle", "done", "raised"}
  /\ reqId < MaxRequests
  /\ \E a \in ServerInputs :
       /\ title' = a.title
       /\ summary' = a.summary
       /\ clean_text' = a.clean_text
       /\ sections' = a.sections
  /\ reqId' = reqId + 1
  /\ pc' = "gemini"
  /\ attempts' = <<>>
  /\ sentences' = <<>>
  /\ num_q' = 0
  /\ words' = <<>>
  /\ i' = 0
  /\ correct' = <<>>
  /\ options' = <<>>
  /\ quiz' = <<>>
  /\ result' = NoResult
  /\ UNCHANGED <<envVars, rng, rngUsers>>

Attempted(who, outcome) == [who |-> who, outcome |-> outcome]

\* one provider attempt of generate_quiz: text = call(prompt); if text:
\* parsed = _parse_and_validate_json(text); if parsed: return parsed
AttemptWith(who, text, nextPc) ==
  LET parsed == ParseAndValidateJson(text.doc)
  IN IF Truthy(text) /\ parsed.status = "ok"
     THEN /\ attempts' = Append(attempts, Attempted(who, "validated"))
          /\ result' = parsed.value
          /\ pc' = "done"
     ELSE IF Truthy(text) /\ parsed.status = "raised"
     THEN /\ attempts' = Append(attempts, Attempted(who, "raised"))
          /\ pc' = "raised"
          /\ UNCHANGED result
     ELSE /\ attempts' = Append(attempts, Attempted(who, "failed"))
          /\ pc' = nextPc
          /\ UNCHANGED result

\* if gemini_key: ...
TryGemini ==
  /\ pc = "gemini"
  /\ IF ShouldCall(gemini_key)
     THEN \E reply \in Replies : AttemptWith("gemini", CallGemini(gemini_key, reply), "openai")
     ELSE pc' = "openai" /\ UNCHANGED <<attempts, result>>
  /\ UNCHANGED <<inputVars, envVars, rng, rngUsers, reqId, fallbackVars>>

\* if openai_key: ...
TryOpenAI ==
  /\ pc = "openai"
  /\ IF ShouldCall(openai_key)
     THEN \E reply \in Replies : AttemptWith("openai", CallOpenAI(openai_key, reply), "fallback")
     ELSE pc' = "fallback" /\ UNCHANGED <<attempts, result>>
  /\ UNCHANGED <<inputVars, envVars, rng, rngUsers, reqId, fallbackVars>>

(***************************************************************************)
(* _fallback_generate_from_text                                            *)
(***************************************************************************)
\* lines 55-69: sentences, num_q, the word pool
FallbackStart ==
  /\ pc = "fallback"
  /\ attempts' = Append(attempts, Attempted("fallback", "started"))
  /\ sentences' = Sentences(clean_text, summary, title)
  /\ num_q' = NumQ(sentences')
  /\ words' = WordPool(sentences', hashSeed)
  /\ quiz' = <<>>
  /\ i' = 0
  /\ pc' = "question"
  /\ UNCHANGED <<inputVars, envVars, rng, rngUsers, reqId, correct, options, result>>

\* lines 71-86: the correct answer of question i and options = [correct]
BuildQuestion ==
  /\ pc = "question"
  /\ i < num_q
  /\ LET sentence == SourceSentence(sentences, i)
     IN /\ correct' = CorrectAnswer(sentence, title, rng)
        /\ IF Candidates(sentence) # <<>>
           THEN rng' = RngNext(rng) /\ rngUsers' = rngUsers \cup {reqId}
           ELSE UNCHANGED <<rng, rngUsers>>
  /\ options' = <<correct'>>
  /\ pc' = "options"
  /\ UNCHANGED <<inputVars, envVars, reqId, attempts, sentences, num_q, words, i, quiz, result>>

\* lines 87-90: one iteration of `while len(options) < 4`
DrawOption ==
  /\ pc = "options"
  /\ Len(options) < NumOptions
  /\ options' = AddOption(options, Pick(words, rng))
  /\ rng' = RngNext(rng)
  /\ rngUsers' = rngUsers \cup {reqId}
  /\ UNCHANGED <<inputVars, envVars, reqId, pc, attempts, sentences, num_q, words, i,
                 correct, quiz, result>>

\* lines 91-103: shuffle, difficulty, explanation, quiz.append(q)
FinishQuestion ==
  /\ pc = "options"
  /\ Len(options) >= NumOptions
  /\ LET shuffled == Shuffle(options, rng)
         sentence == SourceSentence(sentences, i)
     IN /\ options' = shuffled.list
        /\ quiz' = Append(quiz, Question(sentence, summary, title, shuffled.list, correct,
                                         Difficulty(shuffled.rng)))
        /\ rng' = RngNext(shuffled.rng)
  /\ rngUsers' = rngUsers \cup {reqId}
  /\ i' = i + 1
  /\ pc' = "question"
  /\ UNCHANGED <<inputVars, envVars, reqId, attempts, sentences, num_q, words, correct, result>>

\* lines 105-119: related topics and the returned dict
FallbackReturn ==
  /\ pc = "question"
  /\ i >= num_q
  /\ result' = [title |-> title, summary |-> summary, quiz |-> quiz,
                related_topics |-> RelatedTopics(sections, words)]
  /\ pc' = "done"
  /\ UNCHANGED <<inputVars, envVars, rng, rngUsers, reqId, attempts, fallbackVars>>

(***************************************************************************)
(* Specifications                                                          *)
(***************************************************************************)
Next ==
  \/ GenerateQuizEndpoint
  \/ TryGemini
  \/ TryOpenAI
  \/ FallbackStart
  \/ BuildQuestion
  \/ DrawOption
  \/ FinishQuestion
  \/ FallbackReturn

\* the server: requests handled one after the other
Spec == Init /\ [][Next]_vars

NextFallback ==
  \/ FallbackStart
  \/ BuildQuestion
  \/ DrawOption
  \/ FinishQuestion
  \/ FallbackReturn

\* one direct call of the fallback generator
SpecFallback == InitFallback /\ [][NextFallback]_vars

(***************************************************************************)
(* Properties                                                              *)
(***************************************************************************)
Distinct(seq) == \A a, b \in 1..Len(seq) : a # b => seq[a] # seq[b]

Returned == pc = "done"

\* the sentence question number k (1-based) of the fallback is built from
SourceOf(k) == IF k - 1 < Len(sentences) THEN sentences[k] ELSE sentences[1]

\* C1: the option-building loop of the fallback generator always reaches 4
\* options, so the call returns: whenever the loop is at its head with fewer
\* than 4 options, some value the generator can produce gives a pick that is
\* not yet among the options
C1_OptionLoopCanFinish ==
  (pc = "options" /\ Len(options) < NumOptions) =>
    \E r \in 0..(RngModulus - 1) : ~Contains(options, Pick(words, r))

\* C2: in every Quiz the fallback generator returns, every question has
\* exactly 4 pairwise distinct options and its answer is one of them
C2_OptionsValid ==
  Returned =>
    \A k \in 1..Len(result.quiz) :
      /\ Len(result.quiz[k].options) = 4
      /\ Distinct(result.quiz[k].options)
      /\ Contains(result.quiz[k].options, result.quiz[k].answer)

\* a returned quiz drawn from a word pool in which the shuffle moved an answer
\* away from the first position
C2_Witness ==
  /\ Returned
  /\ words # <<>>
  /\ \E k \in 1..Len(result.quiz) : result.quiz[k].options[1] # result.quiz[k].answer

\* C3: the number of questions of the returned Quiz is len(sentences) // 3
\* clamped to 5..7, sentences being the trimmed non-empty pieces of clean_text
\* between periods, or [summary] (else [title]) when there are none; so it is
\* between 5 and 7, and 7 from 21 sentences on
C3_QuestionCount ==
  Returned =>
    LET n == Len(Sentences(clean_text, summary, title))
        third == n \div 3
    IN /\ Len(result.quiz) = (IF third < 5 THEN 5 ELSE IF third > 7 THEN 7 ELSE third)
       /\ Len(result.quiz) \in 5..7
       /\ n >= 21 => Len(result.quiz) = 7
       /\ clean_text = <<>> =>
            sentences = <<IF summary # <<>> THEN summary ELSE title>>

\* a quiz of 7 questions returned for a text of 21 sentences or more
C3_Witness ==
  /\ Returned
  /\ Len(sentences) >= 21
  /\ Len(result.quiz) = 7

\* the position in `sections` at which s first occurs
FirstIndex(s) == CHOOSE k \in 1..Len(sections) : sections[k] = s /\ \A j \in 1..(k - 1) : sections[j] # s

\* C7: related_topics of the returned Quiz has at most 6 entries, pairwise
\* distinct; it starts with the non-empty entries among the first 5 sections,
\* each once, in their order of first occurrence, and what follows are words
\* among the first 6 of the pool; no section and no pool give the empty list
C7_RelatedTopics ==
  Returned =>
    LET rel == result.related_topics
        head == {sections[k] : k \in 1..Min(5, Len(sections))} \ {<<>>}
        m == Cardinality(head)
    IN /\ Len(rel) <= 6
       /\ Distinct(rel)
       /\ m <= Len(rel)
       /\ {rel[k] : k \in 1..m} = head
       /\ \A a, b \in 1..m : a < b => FirstIndex(rel[a]) < FirstIndex(rel[b])
       /\ \A k \in (m + 1)..Len(rel) : \E j \in 1..Min(6, Len(words)) : rel[k] = words[j]
       /\ (sections = <<>> /\ words = <<>>) => rel = <<>>

\* a returned list of 6 topics where a word among the first 6 of the pool was
\* skipped because a section already supplied it
C7_Witness ==
  /\ Returned
  /\ Len(result.related_topics) = 6
  /\ \E j \in 1..Min(6, Len(words)) : \E k \in 1..Min(5, Len(sections)) :
       sections[k] = words[j]

\* C9: question k is built from sentences[k] when there is one and from the
\* first sentence otherwise; its text is the first 200 characters of that
\* sentence without trailing whitespace, then "?", unless that has fewer than
\* 10 characters: then the first 200 characters of summary (of title when
\* summary is empty), then "?".  With only title = "Foo" every text is "Foo?"
C9_QuestionText ==
  Returned =>
    /\ \A k \in 1..Len(result.quiz) :
         LET src == SourceOf(k)
             cut == SubSeq(src, 1, Min(200, Len(src)))
             text == result.quiz[k].question
             body == SubSeq(text, 1, Len(text) - 1)
             other == IF summary # <<>> THEN summary ELSE title
             kept == Cardinality({j \in 1..Len(cut) :
                                    \E l \in j..Len(cut) : cut[l] \notin Whitespace})
         IN /\ text # <<>>
            /\ text[Len(text)] = "?"
            /\ IF kept < 10
               THEN body = SubSeq(other, 1, Min(200, Len(other)))
               ELSE body = SubSeq(cut, 1, kept)
    /\ (clean_text = <<>> /\ summary = <<>> /\ title = wFoo) =>
         \A k \in 1..Len(result.quiz) : result.quiz[k].question = <<"F", "o", "o", "?">>

\* a returned quiz whose first question is a sentence of more than 200
\* characters cut at 200 and stripped of the space it then ends with, and whose
\* later questions reuse the first sentence
C9_Witness ==
  /\ Returned
  /\ Len(sentences) = 1
  /\ Len(sentences[1]) > 200
  /\ sentences[1][200] \in Whitespace
  /\ Len(result.quiz[1].question) = 200
  /\ result.quiz[5].question = result.quiz[1].question

\* C10: the answer of a question is one of the title-cased tokens longer than
\* 3 characters of its source sentence when there is one; otherwise the first
\* whitespace-delimited token of the sentence; the title when the sentence has
\* no token
C10_Answer ==
  Returned =>
    \A k \in 1..Len(result.quiz) :
      LET src == SourceOf(k)
          parts == WsSplit(src)
          titled == {t \in {StrStrip(parts[j], PunctChars) : j \in 1..Len(parts)} :
                       IsTitle(t) /\ Len(t) > 3}
          answer == result.quiz[k].answer
      IN IF titled # {} THEN answer \in titled
         ELSE IF parts # <<>> THEN answer = parts[1]
         ELSE answer = title

\* a returned quiz with an answer picked among several title-cased tokens, an
\* answer that is the first token "(the)" of an all-lowercase sentence
C10_Witness ==
  /\ Returned
  /\ Len(result.quiz) >= 3
  /\ Len(Candidates(SourceOf(1))) > 1
  /\ result.quiz[1].answer # Candidates(SourceOf(1))[1]
  /\ result.quiz[2].answer = <<"(", "t", "h", "e", ")">>

Rank(who) == CASE who = "gemini" -> 1 [] who = "openai" -> 2 [] who = "fallback" -> 3

\* C4: the attempts of a request are made in the order Gemini, OpenAI,
\* fallback; a provider is called only when its key is configured; nothing is
\* attempted after a provider's output validated; the fallback starts only
\* after every configured provider was tried and failed; with no key the only
\* attempt is the fallback and the result is its quiz
C4_AttemptOrder ==
  /\ \A a, b \in 1..Len(attempts) :
       a < b => /\ Rank(attempts[a].who) < Rank(attempts[b].who)
                /\ attempts[a].outcome = "failed"
  /\ \A a \in 1..Len(attempts) :
       /\ attempts[a].who = "gemini" => gemini_key
       /\ attempts[a].who = "openai" => openai_key
       /\ attempts[a].who = "fallback" =>
            /\ gemini_key => \E b \in 1..(a - 1) : attempts[b] = Attempted("gemini", "failed")
            /\ openai_key => \E b \in 1..(a - 1) : attempts[b] = Attempted("openai", "failed")
  /\ pc \in {"question", "options"} =>
       attempts # <<>> /\ attempts[Len(attempts)].who = "fallback"
  /\ (Returned /\ ~gemini_key /\ ~openai_key) =>
       /\ attempts = <<Attempted("fallback", "started")>>
       /\ result.quiz = quiz

\* a request with both keys configured that went through Gemini, OpenAI and
\* the fallback, in that order, and returned
C4_Witness ==
  /\ Returned
  /\ gemini_key /\ openai_key
  /\ attempts = <<Attempted("gemini", "failed"), Attempted("openai", "failed"),
                  Attempted("fallback", "started")>>

\* C5: whatever a configured provider returns, generate_quiz propagates no
\* error to its caller
C5_NoErrorPropagates == pc # "raised"

\* the Quiz schema of the data model
MatchesSchema(r) ==
  \A k \in 1..Len(r.quiz) :
    /\ Len(r.quiz[k].options) = 4
    /\ Distinct(r.quiz[k].options)
    /\ Contains(r.quiz[k].options, r.quiz[k].answer)
    /\ r.quiz[k].difficulty \in {"easy", "medium", "hard"}

\* C6: every object generate_quiz returns, whichever attempt produced it,
\* matches the Quiz schema: 4 distinct options, the answer among them, a
\* difficulty in {easy, medium, hard}
C6_ReturnedQuizMatchesSchema == Returned => MatchesSchema(result)

\* C8: no invocation reads or writes state shared with another one; each draws
\* its random choices from a generator no other invocation uses
C8_NoSharedRandomState == Cardinality(rngUsers) <= 1

=============================================================================
